---- MODULE Spec2Model ----
(***************************************************************************)
(* The call orchestrator of src/src/App.tsx: the generic wrapper `run`     *)
(* around one GraphQL request, the React state it drives (loading, error,  *)
(* the five result slots) and the five buttons that start it.              *)
(*                                                                         *)
(* JavaScript runs each synchronous stretch of code to completion, so one  *)
(* action is one such stretch: Start is the click handler up to the await  *)
(* of line 85, Settle is the environment settling the promise `task()`     *)
(* returned, Resume is the continuation of `run` after the await, lines    *)
(* 85-102, through try, catch and finally.                                 *)
(***************************************************************************)
EXTENDS Integers, Sequences, FiniteSets, TLC

\* Longest `errors` array the server returns.
MaxErrors == 2
\* Number of records kept for invocations of run.
MaxRuns == 2

Runs == 1..MaxRuns

\* The `message` strings of error records (line 6); "" is a legal string.
Messages == {"", "not found"}

\* The field of `data` each button reads = the operation kind (lines 134-270).
Kinds == {"customer", "catalogItems", "quotePrice", "placeOrder", "scheduleReturn"}

----------------------------------------------------------------------------
(* JSON values of `data` (line 5).  An object is modelled by the one field  *)
(* the callbacks read; key "" is the object {} and any object lacking it.   *)

Undefined == [tag |-> "undefined", key |-> "", val |-> ""]
JNull     == [tag |-> "null",      key |-> "", val |-> ""]
JFalse    == [tag |-> "boolean",   key |-> "", val |-> "false"]
JZero     == [tag |-> "number",    key |-> "", val |-> "0"]
JEmptyStr == [tag |-> "string",    key |-> "", val |-> ""]
JEmptyObj == [tag |-> "object",    key |-> "", val |-> ""]
JObj(k, v) == [tag |-> "object", key |-> k, val |-> v]

\* Values a field of `data` takes: a record of the operation's type, or null.
Payloads == {"null", "p1"}

DataValues(kind) ==
    {Undefined, JNull, JFalse, JZero, JEmptyStr, JEmptyObj}
        \cup {JObj(kind, v) : v \in Payloads}

\* The `data` values enumerated beside a non-empty `errors`: absent, null, an object.
DataBesideErrors(kind) == {Undefined, JNull, JObj(kind, "p1")}

\* JavaScript truthiness, as `!payload.data` of line 91 tests it.
Truthy(d) ==
    CASE d.tag = "undefined" -> FALSE
      [] d.tag = "null"      -> FALSE
      [] d.tag = "boolean"   -> d.val = "true"
      [] d.tag = "number"    -> d.val # "0"
      [] d.tag = "string"    -> d.val # ""
      [] OTHER               -> TRUE

\* Property read `data.<key>` (lines 134, 165, 196, 231, 270) on a truthy value.
Get(d, k) == IF d.tag = "object" /\ d.key = k THEN d.val ELSE "undefined"

----------------------------------------------------------------------------
(* Envelopes (GraphQLResponse, lines 4-7) and thrown values.                *)

SeqsUpTo(S, n) == UNION {[1..m -> S] : m \in 0..n}

ErrorRecords == [message : Messages]

NoErrors == [present |-> FALSE, items |-> <<>>]

EmptyErrors == [present |-> TRUE, items |-> <<>>]

NonEmptyErrors ==
    {[present |-> TRUE, items |-> s] : s \in SeqsUpTo(ErrorRecords, MaxErrors) \ {<<>>}}

Envelopes(kind) ==
    [data : DataValues(kind), errors : {NoErrors, EmptyErrors}]
        \cup [data : DataBesideErrors(kind), errors : NonEmptyErrors]

NoEnvelope == [data |-> Undefined, errors |-> NoErrors]

\* What a rejected promise or a throw carries: an Error with a message, or
\* any other value.
ErrorValue(m) == [tag |-> "Error", message |-> m, num |-> 0]
StringValue(s) == [tag |-> "string", message |-> s, num |-> 0]
NumberValue(n) == [tag |-> "number", message |-> "", num |-> n]
UndefinedValue == [tag |-> "undefined", message |-> "", num |-> 0]

NoThrown == UndefinedValue

ThrownValues ==
    {ErrorValue("network down"), ErrorValue(""), StringValue("boom"),
     NumberValue(42), UndefinedValue}

Digit == <<"0", "1", "2", "3", "4", "5", "6", "7", "8", "9">>

RECURSIVE NumberToString(_)
NumberToString(n) ==
    IF n < 10 THEN Digit[n + 1]
    ELSE NumberToString(n \div 10) \o Digit[(n % 10) + 1]

\* String(e) of line 98 for the values that are not Errors.
String(e) ==
    CASE e.tag = "string"    -> e.message
      [] e.tag = "number"    -> NumberToString(e.num)
      [] e.tag = "undefined" -> "undefined"
      [] OTHER               -> "[object Object]"

\* How the promise of task() settled.
Fulfilled(p) == [status |-> "fulfilled", payload |-> p, thrown |-> NoThrown]
Rejected(e)  == [status |-> "rejected", payload |-> NoEnvelope, thrown |-> e]
NotSettled   == [status |-> "none", payload |-> NoEnvelope, thrown |-> NoThrown]

TaskResults(kind) ==
    {Fulfilled(p) : p \in Envelopes(kind)} \cup {Rejected(e) : e \in ThrownValues}

----------------------------------------------------------------------------
(* The component's state (lines 69-76) and the invocations of run.          *)

VARIABLES loading, error, customerResult, catalogResult, quoteResult,
          placeOrderResult, scheduleReturnResult, runs

vars == <<loading, error, customerResult, catalogResult, quoteResult,
          placeOrderResult, scheduleReturnResult, runs>>

\* The five result slots, by operation kind.
Slots ==
    [customer |-> customerResult, catalogItems |-> catalogResult,
     quotePrice |-> quoteResult, placeOrder |-> placeOrderResult,
     scheduleReturn |-> scheduleReturnResult]

InitialSlots ==
    [customer |-> "null", catalogItems |-> "[]", quotePrice |-> "null",
     placeOrder |-> "null", scheduleReturn |-> "null"]

\* The callbacks handed to run: the setter of the button's slot ("set"), and,
\* for run taken on its own signature, callbacks that throw.
AnyCallbacks == {"set", "throwError", "throwString"}

CallbackThrows(cb) ==
    IF cb = "throwError" THEN ErrorValue("callback failed") ELSE StringValue("callback failed")

NoInvocation ==
    [pc |-> "idle", kind |-> "customer", cb |-> "set", settled |-> NotSettled,
     log |-> <<>>, arg |-> Undefined, promise |-> "none", pre |-> InitialSlots]

Init ==
    /\ loading = FALSE
    /\ error = ""
    /\ customerResult = "null"
    /\ catalogResult = "[]"
    /\ quoteResult = "null"
    /\ placeOrderResult = "null"
    /\ scheduleReturnResult = "null"
    /\ runs = [i \in Runs |-> NoInvocation]

----------------------------------------------------------------------------
(* The body of run works on a frame: the React state it writes, the trace   *)
(* of the calls it has made (log), the argument it gave onSuccess, and how  *)
(* the block being executed completed (normally, by return, by a throw).    *)

Frame(log) ==
    [loading |-> loading, error |-> error, slots |-> Slots, log |-> log,
     arg |-> Undefined, completion |-> "normal", thrown |-> NoThrown]

setLoading(f, value) ==
    [f EXCEPT !.loading = value,
              !.log = Append(@, IF value THEN "setLoading(true)" ELSE "setLoading(false)")]

setError(f, text) == [f EXCEPT !.error = text, !.log = Append(@, "setError")]

setCustomerResult(f, v) == [f EXCEPT !.slots.customer = v]
setCatalogResult(f, v) == [f EXCEPT !.slots.catalogItems = v]
setQuoteResult(f, v) == [f EXCEPT !.slots.quotePrice = v]
setPlaceOrderResult(f, v) == [f EXCEPT !.slots.placeOrder = v]
setScheduleReturnResult(f, v) == [f EXCEPT !.slots.scheduleReturn = v]

\* The customer button's callback storing the customer only when there is one.
OnSuccessSkipsNull(kind, f, data) ==
    CASE kind = "customer"       -> IF Get(data, "customer") \in {"null", "undefined"}
                                    THEN f ELSE setCustomerResult(f, Get(data, "customer"))
      [] kind = "catalogItems"   -> setCatalogResult(f, Get(data, "catalogItems"))
      [] kind = "quotePrice"     -> setQuoteResult(f, Get(data, "quotePrice"))
      [] kind = "placeOrder"     -> setPlaceOrderResult(f, Get(data, "placeOrder"))
      [] kind = "scheduleReturn" -> setScheduleReturnResult(f, Get(data, "scheduleReturn"))

\* The catalog button's callback written with the quote's setter.
OnSuccessWrongSetter(kind, f, data) ==
    CASE kind = "customer"       -> setCustomerResult(f, Get(data, "customer"))
      [] kind = "catalogItems"   -> setQuoteResult(f, Get(data, "catalogItems"))
      [] kind = "quotePrice"     -> setQuoteResult(f, Get(data, "quotePrice"))
      [] kind = "placeOrder"     -> setPlaceOrderResult(f, Get(data, "placeOrder"))
      [] kind = "scheduleReturn" -> setScheduleReturnResult(f, Get(data, "scheduleReturn"))

\* The onSuccess arrow function of each button.
OnSuccess(kind, f, data) ==
    CASE kind = "customer"       -> setCustomerResult(f, Get(data, "customer"))
      [] kind = "catalogItems"   -> setCatalogResult(f, Get(data, "catalogItems"))
      [] kind = "quotePrice"     -> setQuoteResult(f, Get(data, "quotePrice"))
      [] kind = "placeOrder"     -> setPlaceOrderResult(f, Get(data, "placeOrder"))
      [] kind = "scheduleReturn" -> setScheduleReturnResult(f, Get(data, "scheduleReturn"))

Return(f) == [f EXCEPT !.completion = "return"]
Throw(f, e) == [f EXCEPT !.completion = "throw", !.thrown = e]

\* The success branch clearing the error text once more before onSuccess.
CallOnSuccessClearsError(f, kind, cb, data) ==
    LET g == [setError(f, "") EXCEPT !.log = Append(@, "onSuccess"), !.arg = data]
    IN  IF cb = "set" THEN OnSuccess(kind, g, data) ELSE Throw(g, CallbackThrows(cb))

\* onSuccess(payload.data), line 96: the button's setter, or a callback that throws.
CallOnSuccess(f, kind, cb, data) ==
    LET g == [f EXCEPT !.log = Append(@, "onSuccess"), !.arg = data]
    IN  IF cb = "set" THEN OnSuccess(kind, g, data) ELSE Throw(g, CallbackThrows(cb))

\* payload.errors.map((item) => item.message)
MapMessage(items) == [n \in 1..Len(items) |-> items[n].message]

\* Array.prototype.join: the separator goes before every element but the first.
RECURSIVE JoinUpTo(_, _, _)
JoinUpTo(strs, sep, n) ==
    IF n = 0 THEN ""
    ELSE IF n = 1 THEN strs[1]
    ELSE JoinUpTo(strs, sep, n - 1) \o sep \o strs[n]

\* join() called without its argument: the separator defaults to ",".
JoinDefaultSeparator(strs, sep) == JoinUpTo(strs, ",", Len(strs))

Join(strs, sep) == JoinUpTo(strs, sep, Len(strs))

MissingDataText == "No data returned by GraphQL API"

\* The try block with `payload.errors` tested without `.length > 0`.
TryBlockErrorsTruthy(f, settled, kind, cb) ==
    IF settled.status = "rejected" THEN Throw(f, settled.thrown)
    ELSE LET payload == settled.payload
         IN  IF payload.errors.present
             THEN Return(setError(f, Join(MapMessage(payload.errors.items), "\n")))
             ELSE IF ~Truthy(payload.data)
             THEN Return(setError(f, MissingDataText))
             ELSE CallOnSuccess(f, kind, cb, payload.data)

\* The try block with `payload.data` tested before `payload.errors`.
TryBlockDataFirst(f, settled, kind, cb) ==
    IF settled.status = "rejected" THEN Throw(f, settled.thrown)
    ELSE LET payload == settled.payload
         IN  IF Truthy(payload.data)
             THEN CallOnSuccess(f, kind, cb, payload.data)
             ELSE IF payload.errors.present /\ Len(payload.errors.items) > 0
             THEN Return(setError(f, Join(MapMessage(payload.errors.items), "\n")))
             ELSE Return(setError(f, MissingDataText))

\* The try block with `payload.data === undefined` in place of `!payload.data`.
TryBlockUndefinedTest(f, settled, kind, cb) ==
    IF settled.status = "rejected" THEN Throw(f, settled.thrown)
    ELSE LET payload == settled.payload
         IN  IF payload.errors.present /\ Len(payload.errors.items) > 0
             THEN Return(setError(f, Join(MapMessage(payload.errors.items), "\n")))
             ELSE IF payload.data = Undefined
             THEN Return(setError(f, MissingDataText))
             ELSE CallOnSuccess(f, kind, cb, payload.data)

\* The try block without the test of `payload.data`.
TryBlockNoDataTest(f, settled, kind, cb) ==
    IF settled.status = "rejected" THEN Throw(f, settled.thrown)
    ELSE LET payload == settled.payload
         IN  IF payload.errors.present /\ Len(payload.errors.items) > 0
             THEN Return(setError(f, Join(MapMessage(payload.errors.items), "\n")))
             ELSE CallOnSuccess(f, kind, cb, payload.data)

\* The try block, lines 85-96, entered when `await task()` resumes.
TryBlock(f, settled, kind, cb) ==
    IF settled.status = "rejected" THEN Throw(f, settled.thrown)
    ELSE LET payload == settled.payload
         IN  IF payload.errors.present /\ Len(payload.errors.items) > 0
             THEN Return(setError(f, Join(MapMessage(payload.errors.items), "\n")))
             ELSE IF ~Truthy(payload.data)
             THEN Return(setError(f, MissingDataText))
             ELSE CallOnSuccess(f, kind, cb, payload.data)

\* The catch clause reporting the error and throwing it again.
CatchBlockRethrows(f) ==
    IF f.completion = "throw"
    THEN LET e == f.thrown
             message == IF e.tag = "Error" THEN e.message ELSE String(e)
         IN  setError(f, message)
    ELSE f

\* The catch clause reading e.message of whatever was thrown.
CatchBlockMessageOnly(f) ==
    IF f.completion = "throw"
    THEN [setError(f, f.thrown.message) EXCEPT !.completion = "normal", !.thrown = NoThrown]
    ELSE f

\* The catch clause, lines 97-99: runs when the try block threw, and completes normally.
CatchBlock(f) ==
    IF f.completion = "throw"
    THEN LET e == f.thrown
             message == IF e.tag = "Error" THEN e.message ELSE String(e)
         IN  [setError(f, message) EXCEPT !.completion = "normal", !.thrown = NoThrown]
    ELSE f

\* setLoading(false) placed at the end of the try block instead of in finally.
FinallyBlockAfterTryOnly(f) == IF f.completion = "normal" THEN setLoading(f, FALSE) ELSE f

\* The finally clause, lines 100-102: runs on every completion and keeps it.
FinallyBlock(f) == setLoading(f, FALSE)

\* run without setError('').
PrologueWithoutClear(f) == setLoading(f, TRUE)

\* run without setLoading(true).
PrologueWithoutLoading(f) == setError(f, "")

\* Lines 82-83, the statements of run before the try.
Prologue(f) == setError(setLoading(f, TRUE), "")

Apply(f) ==
    /\ loading' = f.loading
    /\ error' = f.error
    /\ customerResult' = f.slots.customer
    /\ catalogResult' = f.slots.catalogItems
    /\ quoteResult' = f.slots.quotePrice
    /\ placeOrderResult' = f.slots.placeOrder
    /\ scheduleReturnResult' = f.slots.scheduleReturn

----------------------------------------------------------------------------
(* Actions.                                                                 *)

InFlight == {i \in Runs : runs[i].pc \in {"pending", "settled"}}
FreeRuns == Runs \ InFlight

\* run(task, onSuccess) up to the await of line 85: lines 82-83, then task()
\* is called and its promise awaited.  The record used is the lowest free one.
Start(kind, cb) ==
    /\ FreeRuns # {}
    /\ LET i == CHOOSE j \in FreeRuns : \A k \in FreeRuns : j <= k
           f == Prologue(Frame(<<>>))
       IN  /\ Apply(f)
           /\ runs' = [runs EXCEPT ![i] =
                  [pc |-> "pending", kind |-> kind, cb |-> cb, settled |-> NotSettled,
                   log |-> Append(f.log, "task"), arg |-> Undefined,
                   promise |-> "pending", pre |-> Slots]]

\* A click on a button: possible while the button is enabled (disabled={loading}).
Click(kind) == ~loading /\ Start(kind, "set")

\* The promise of task() settles: fetch and response.json() are the environment's.
Settle(i, r) ==
    /\ runs[i].pc = "pending"
    /\ runs' = [runs EXCEPT ![i].pc = "settled", ![i].settled = r]
    /\ UNCHANGED <<loading, error, customerResult, catalogResult, quoteResult,
                   placeOrderResult, scheduleReturnResult>>

\* The continuation of run after the await: try, catch, finally, then the
\* promise of run settles.
Resume(i) ==
    /\ runs[i].pc = "settled"
    /\ LET r == runs[i]
           f == FinallyBlock(CatchBlock(TryBlock(Frame(r.log), r.settled, r.kind, r.cb)))
       IN  /\ Apply(f)
           /\ runs' = [runs EXCEPT ![i].pc = "done", ![i].log = f.log, ![i].arg = f.arg,
                                   ![i].promise = IF f.completion = "throw"
                                                  THEN "rejected" ELSE "fulfilled",
                                   ![i].pre = Slots]

\* The application: the five buttons, the network, the continuations.
Next ==
    \/ \E kind \in Kinds : Click(kind)
    \/ \E i \in Runs : \E r \in TaskResults(runs[i].kind) : Settle(i, r)
    \/ \E i \in Runs : Resume(i)

Spec == Init /\ [][Next]_vars

\* run called by a caller that waits for the previous call to complete.
Invoke(kind) == InFlight = {} /\ Start(kind, "set")

NextSeq ==
    \/ \E kind \in Kinds : Invoke(kind)
    \/ \E i \in Runs : \E r \in TaskResults(runs[i].kind) : Settle(i, r)
    \/ \E i \in Runs : Resume(i)

SpecSeq == Init /\ [][NextSeq]_vars

\* run on its signature: onSuccess is any function, one that throws included.
\* The continuation of a settled await is a microtask, which the event loop
\* runs: weak fairness of Resume.  Nothing makes the network answer.
Call(kind, cb) == ~loading /\ Start(kind, cb)

\* The task settles in one way per path of run: data, null data, no data,
\* errors, errors beside data, an Error thrown, a string thrown.

PathResults(kind) ==
    {Fulfilled([data |-> d, errors |-> NoErrors]) :
        d \in {JObj(kind, "p1"), JObj(kind, "null"), JNull, Undefined}}
    \cup {Fulfilled([data |-> d, errors |-> [present |-> TRUE, items |-> <<[message |-> "not found"]>>]]) :
        d \in {JObj(kind, "p1"), Undefined}}
    \cup {Rejected(ErrorValue("network down")), Rejected(StringValue("boom"))}

NextRun ==
    \/ \E kind \in Kinds : \E cb \in AnyCallbacks : Call(kind, cb)
    \/ \E i \in Runs : \E r \in PathResults(runs[i].kind) : Settle(i, r)
    \/ \E i \in Runs : Resume(i)

SpecRun == Init /\ [][NextRun]_vars /\ \A i \in Runs : WF_vars(Resume(i))

\* run called with no gating, on a fresh component: calls are started one
\* after the other while none has completed, so that all of them overlap.
Overlap(kind) == (\A i \in Runs : runs[i].pc # "done") /\ Start(kind, "set")

\* The task settles with data, with one error (its message empty or not),
\* with no data, or by throwing an Error.
OverlapResults(kind) ==
    {Fulfilled([data |-> JObj(kind, "p1"), errors |-> NoErrors]),
     Fulfilled([data |-> Undefined, errors |-> NoErrors]),
     Fulfilled([data |-> Undefined, errors |-> [present |-> TRUE, items |-> <<[message |-> "not found"]>>]]),
     Fulfilled([data |-> Undefined, errors |-> [present |-> TRUE, items |-> <<[message |-> ""]>>]]),
     Rejected(ErrorValue("network down"))}

NextOverlap ==
    \/ \E kind \in Kinds : Overlap(kind)
    \/ \E i \in Runs : \E r \in OverlapResults(runs[i].kind) : Settle(i, r)
    \/ \E i \in Runs : Resume(i)

SpecOverlap == Init /\ [][NextOverlap]_vars

----------------------------------------------------------------------------
(* Vocabulary of the properties.                                            *)

Done(i) == runs[i].pc = "done"
GotEnvelope(i) == runs[i].settled.status = "fulfilled"
TaskThrew(i) == runs[i].settled.status = "rejected"
EnvelopeOf(i) == runs[i].settled.payload

HasErrors(p) == p.errors.present /\ p.errors.items # <<>>
DataPresent(p) == p.data # Undefined
FalsyJson == {JNull, JFalse, JZero, JEmptyStr}

\* The outcome of a call, from what its task returned or threw.
Succeeded(i) ==
    /\ GotEnvelope(i) /\ ~HasErrors(EnvelopeOf(i))
    /\ DataPresent(EnvelopeOf(i)) /\ EnvelopeOf(i).data \notin FalsyJson
Failed(i) == ~Succeeded(i)

\* The continuation of run i is the step being taken.
Completes(i) == runs[i].pc = "settled" /\ runs'[i].pc = "done"

Count(log, x) == Cardinality({n \in 1..Len(log) : log[n] = x})

\* The messages of the error records, newline between consecutive ones.
RECURSIVE NewlineJoined(_)
NewlineJoined(items) ==
    IF Len(items) = 1 THEN items[1].message
    ELSE items[1].message \o "\n" \o NewlineJoined(Tail(items))

\* The text of a thrown value: the message of an Error, else its string form.
ThrownText(e) ==
    CASE e.tag = "Error"      -> e.message
      [] e.tag = "string"     -> e.message
      [] e = NumberValue(42)  -> "42"
      [] e = UndefinedValue   -> "undefined"

----------------------------------------------------------------------------
\* C1: a call whose envelope has a non-empty `errors` ends with errorText equal
\* to the messages of the error records joined by newlines in their order, and
\* without having invoked onSuccess, whether or not `data` is present.
ErrorsTakePrecedence ==
    \A i \in Runs :
        (Done(i) /\ GotEnvelope(i) /\ HasErrors(EnvelopeOf(i)))
            => /\ error = NewlineJoined(EnvelopeOf(i).errors.items)
               /\ Count(runs[i].log, "onSuccess") = 0

\* Two errors reported beside a present `data`.
ErrorsBesideDataReached ==
    \E i \in Runs :
        /\ Done(i)
        /\ EnvelopeOf(i).errors.items = <<[message |-> "not found"], [message |-> ""]>>
        /\ EnvelopeOf(i).data = JObj(runs[i].kind, "p1")
        /\ error = "not found\n"

\* C2, as stated: a call whose envelope has empty or absent `errors` and a
\* present `data` invokes onSuccess exactly once with that data and ends with
\* errorText empty.
PresentDataSucceeds ==
    \A i \in Runs :
        (Done(i) /\ GotEnvelope(i) /\ ~HasErrors(EnvelopeOf(i)) /\ DataPresent(EnvelopeOf(i)))
            => /\ Count(runs[i].log, "onSuccess") = 1
               /\ runs[i].arg = EnvelopeOf(i).data
               /\ error = ""

\* C2, amended: the same for a `data` that is present and not one of the
\* falsy JSON values null, false, 0 and "".
NonFalsyDataSucceeds ==
    \A i \in Runs :
        (/\ Done(i) /\ GotEnvelope(i) /\ ~HasErrors(EnvelopeOf(i))
         /\ DataPresent(EnvelopeOf(i)) /\ EnvelopeOf(i).data \notin FalsyJson)
            => /\ Count(runs[i].log, "onSuccess") = 1
               /\ runs[i].arg = EnvelopeOf(i).data
               /\ error = ""

\* A customer loaded from an envelope whose `errors` is the empty array.
SuccessReached ==
    \E i \in Runs :
        /\ Done(i) /\ GotEnvelope(i)
        /\ EnvelopeOf(i) = [data |-> JObj("customer", "p1"), errors |-> EmptyErrors]
        /\ runs[i].arg = JObj("customer", "p1")
        /\ customerResult = "p1"

\* C3: a call whose envelope has empty or absent `errors` and no `data` ends
\* with errorText equal to the fixed sentence and without having invoked
\* onSuccess.
AbsentDataIsReported ==
    \A i \in Runs :
        (Done(i) /\ GotEnvelope(i) /\ ~HasErrors(EnvelopeOf(i)) /\ ~DataPresent(EnvelopeOf(i)))
            => /\ error = "No data returned by GraphQL API"
               /\ Count(runs[i].log, "onSuccess") = 0

\* The envelope {} received.
EmptyEnvelopeReached ==
    \E i \in Runs :
        /\ Done(i) /\ GotEnvelope(i)
        /\ EnvelopeOf(i) = [data |-> Undefined, errors |-> NoErrors]
        /\ error = "No data returned by GraphQL API"

\* C4: a call whose task rejects ends with errorText equal to the message of
\* the thrown Error, or to the string form of a thrown value that is no Error,
\* without having invoked onSuccess, with every result slot as it was and
\* with loading false.
TransportErrorIsReported ==
    \A i \in Runs :
        (Done(i) /\ TaskThrew(i))
            => /\ error = ThrownText(runs[i].settled.thrown)
               /\ Count(runs[i].log, "onSuccess") = 0
               /\ Slots = runs[i].pre
               /\ loading = FALSE

\* A number thrown after a quote was stored.
ThrownNumberReached ==
    \E i \in Runs :
        /\ Done(i) /\ TaskThrew(i)
        /\ runs[i].settled.thrown = NumberValue(42)
        /\ error = "42"
        /\ quoteResult = "p1"

----------------------------------------------------------------------------
\* C5: with calls made one after the other, loading is true in every state in
\* which a call has started and its outcome is not yet applied, and false in
\* every other state, whatever the outcome.
LoadingWhileCallRuns ==
    /\ \A i \in Runs : runs[i].pc \in {"pending", "settled"} => loading = TRUE
    /\ (\A i \in Runs : runs[i].pc \in {"idle", "done"}) => loading = FALSE

\* A call that ended in a transport exception, followed by a call under way.
SecondCallUnderWay ==
    \E i \in Runs :
        /\ runs[i].pc = "settled" /\ TaskThrew(i)
        /\ error = ""
        /\ loading = TRUE
        /\ customerResult = "p1"

\* C6: every call whose task settled performs setLoading(false), exactly once
\* and as the last of its state writes, also when onSuccess throws.
LoadingClearedOnceAtTheEnd ==
    /\ \A i \in Runs : (runs[i].pc = "settled") ~> (runs[i].pc = "done")
    /\ [](\A i \in Runs :
            /\ Done(i) => /\ Count(runs[i].log, "setLoading(false)") = 1
                          /\ runs[i].log[Len(runs[i].log)] = "setLoading(false)"
            /\ ~Done(i) => Count(runs[i].log, "setLoading(false)") = 0)

\* A call whose onSuccess threw an Error.
CallbackThrewReached ==
    \E i \in Runs :
        /\ Done(i) /\ runs[i].cb = "throwError"
        /\ Count(runs[i].log, "onSuccess") = 1
        /\ runs[i].log[Len(runs[i].log)] = "setLoading(false)"
        /\ loading = FALSE

----------------------------------------------------------------------------
\* C7: a completed call has changed no result slot unless it succeeded, and a
\* call that succeeded has changed no slot but the one of its operation kind.
OnlySuccessWritesItsSlot ==
    \A i \in Runs :
        Done(i) =>
            \A k \in Kinds :
                Slots[k] # runs[i].pre[k]
                    => /\ Succeeded(i)
                       /\ k = runs[i].kind
                       /\ Count(runs[i].log, "onSuccess") = 1

\* A catalog call that failed while a quote was stored.
FailedCatalogKeepsQuote ==
    \E i \in Runs :
        /\ Done(i) /\ runs[i].kind = "catalogItems"
        /\ HasErrors(EnvelopeOf(i))
        /\ runs[i].pre.quotePrice = "p1"
        /\ quoteResult = "p1"

\* C8, as stated, for the kind of the call that has just completed: in an idle
\* state a slot whose kind's last call failed holds the absence value.
FailedCallLeavesAbsence ==
    \A i \in Runs :
        (Done(i) /\ InFlight = {} /\ Failed(i))
            => Slots[runs[i].kind] = InitialSlots[runs[i].kind]

\* C8, amended: each slot starts at its absence value, a call that succeeds
\* stores the field of its payload in the slot of its kind, and no other step
\* changes a slot; so each slot holds the most recent successful payload of
\* its kind, or the absence value if no call of its kind has succeeded.
SlotsHoldLastSuccess ==
    /\ Slots = InitialSlots
    /\ [][\A k \in Kinds :
            Slots'[k] =
                IF \E i \in Runs : Completes(i) /\ Succeeded(i) /\ runs[i].kind = k
                THEN LET i == CHOOSE j \in Runs :
                                  Completes(j) /\ Succeeded(j) /\ runs[j].kind = k
                     IN  IF EnvelopeOf(i).data.key = k
                         THEN EnvelopeOf(i).data.val ELSE "undefined"
                ELSE Slots[k]]_vars

\* A customer stored by an earlier call and kept by a later one that failed.
FailedCallKeepsPayload ==
    \E i \in Runs :
        /\ Done(i) /\ InFlight = {} /\ Failed(i)
        /\ runs[i].kind = "customer"
        /\ customerResult = "p1"

\* C9: with calls started by the buttons, which are disabled while loading is
\* true, at most one call is in flight and loading is true exactly when one is.
SingleFlight ==
    /\ Cardinality(InFlight) <= 1
    /\ loading <=> InFlight # {}

\* One call in flight after an earlier one completed.
OneCallInFlight ==
    /\ Cardinality(InFlight) = 1
    /\ loading = TRUE
    /\ placeOrderResult = "p1"

\* C10: a call invokes task once; one that ends in an application error,
\* missing data or a transport error writes its error text once after the task
\* settled, invokes nothing else, and the promise of run is fulfilled.
ErrorsAreTerminal ==
    \A i \in Runs :
        /\ runs[i].pc # "idle" => Count(runs[i].log, "task") = 1
        /\ runs[i].promise # "rejected"
        /\ (Done(i) /\ Failed(i))
              => /\ runs[i].log = <<"setLoading(true)", "setError", "task",
                                    "setError", "setLoading(false)">>
                 /\ runs[i].promise = "fulfilled"
                 /\ error = IF TaskThrew(i) THEN ThrownText(runs[i].settled.thrown)
                            ELSE IF HasErrors(EnvelopeOf(i))
                            THEN NewlineJoined(EnvelopeOf(i).errors.items)
                            ELSE "No data returned by GraphQL API"

\* A call that ended in a transport error, its promise fulfilled.
TransportErrorFulfilled ==
    \E i \in Runs :
        /\ Done(i) /\ TaskThrew(i)
        /\ runs[i].promise = "fulfilled"
        /\ error = "network down"

----------------------------------------------------------------------------
\* The frame in which the continuation of a call runs when no call was made
\* before it: loading true, error empty, every slot at its initial value.
FirstCallFrame(log) ==
    [loading |-> TRUE, error |-> "", slots |-> InitialSlots, log |-> log,
     arg |-> Undefined, completion |-> "normal", thrown |-> NoThrown]

\* What run does with a task result when nothing was left by earlier calls.
FirstCallOutcome(r) ==
    FinallyBlock(CatchBlock(TryBlock(FirstCallFrame(r.log), r.settled, r.kind, r.cb)))

\* C11: with calls made one after the other, what a call does once its task
\* has settled (the error text, the loading flag, the calls it made, what it
\* gave onSuccess and what onSuccess stored, how its promise settled) is what the
\* same task result gives on a fresh component: it depends on the task result
\* alone, not on loading, error or the slots left by earlier calls, so the
\* same result gives the same outcome kind each time.
OutcomeDependsOnTaskOnly ==
    [][\A i \in Runs :
          Completes(i) =>
              LET f == FirstCallOutcome(runs[i])
              IN  /\ error' = f.error
                  /\ loading' = f.loading
                  /\ runs'[i].log = f.log
                  /\ runs'[i].arg = f.arg
                  /\ runs'[i].promise = "fulfilled"
                  /\ Slots'[runs[i].kind] =
                        IF Count(f.log, "onSuccess") = 1
                        THEN f.slots[runs[i].kind] ELSE Slots[runs[i].kind]]_vars

\* The same customer loaded a second time.
SameCallTwiceReached ==
    \E i \in Runs :
        /\ Done(i) /\ Succeeded(i)
        /\ EnvelopeOf(i).data = JObj("customer", "p1")
        /\ runs[i].pre.customer = "p1"
        /\ customerResult = "p1"
        /\ error = ""

\* C12: a customer call whose envelope is {data: {customer: null}} without
\* errors invokes onSuccess with that data and leaves the customer slot null,
\* whatever it held, and no error text.
NullCustomerIsStored ==
    \A i \in Runs :
        (/\ Done(i) /\ runs[i].kind = "customer" /\ GotEnvelope(i)
         /\ ~HasErrors(EnvelopeOf(i))
         /\ EnvelopeOf(i).data = JObj("customer", "null"))
            => /\ Count(runs[i].log, "onSuccess") = 1
               /\ runs[i].arg = JObj("customer", "null")
               /\ customerResult = "null"
               /\ error # "No data returned by GraphQL API"

\* A null customer received while a customer was stored.
NullCustomerOverwrites ==
    \E i \in Runs :
        /\ Done(i) /\ runs[i].kind = "customer"
        /\ EnvelopeOf(i) = [data |-> JObj("customer", "null"), errors |-> NoErrors]
        /\ runs[i].pre.customer = "p1"
        /\ customerResult = "null"

\* C13: a call in flight has set loading to true, then cleared the error, then
\* invoked task, in this order and nothing else; with no other call in flight
\* the error text is empty while the task is pending.
ErrorClearedBeforeTask ==
    \A i \in Runs :
        runs[i].pc \in {"pending", "settled"}
            => /\ runs[i].log = <<"setLoading(true)", "setError", "task">>
               /\ error = ""
               /\ loading = TRUE

\* A task pending after earlier calls, one of which stored a quote.
TaskPendingAfterEarlierCalls ==
    \E i \in Runs :
        /\ runs[i].pc = "pending"
        /\ runs[i].kind = "catalogItems"
        /\ quoteResult = "p1"
        /\ error = ""

----------------------------------------------------------------------------
\* The error text of a call that failed, from what its task returned or threw.
FailureText(i) ==
    IF TaskThrew(i) THEN ThrownText(runs[i].settled.thrown)
    ELSE IF HasErrors(EnvelopeOf(i)) THEN NewlineJoined(EnvelopeOf(i).errors.items)
    ELSE "No data returned by GraphQL API"

\* Calls i and j are the two calls made, they overlapped and both completed;
\* i failed and j succeeded.
OverlappedPair(i, j) ==
    /\ i # j /\ Done(i) /\ Done(j)
    /\ \A k \in Runs \ {i, j} : runs[k].pc = "idle"
    /\ Failed(i) /\ Succeeded(j)

\* C14, as stated: after two overlapping calls, one failed and one succeeded,
\* the error text is not empty and the slot of the call that succeeded holds
\* its payload, whichever completed last.
OverlapLeavesErrorAndResult ==
    \A i, j \in Runs :
        OverlappedPair(i, j)
            => /\ error # ""
               /\ Slots[runs[j].kind] = EnvelopeOf(j).data.val

\* C14, amended: the error text is the text of the call that failed, which is
\* not empty unless that text is, and the slot of the call that succeeded
\* holds its payload, whichever completed last.
OverlapLeavesFailureTextAndResult ==
    \A i, j \in Runs :
        OverlappedPair(i, j)
            => /\ error = FailureText(i)
               /\ Slots[runs[j].kind] = EnvelopeOf(j).data.val

\* A quote call that failed and a customer call that succeeded, overlapping.
MismatchReached ==
    \E i, j \in Runs :
        /\ OverlappedPair(i, j)
        /\ runs[i].kind = "quotePrice" /\ runs[j].kind = "customer"
        /\ error = "not found"
        /\ customerResult = "p1"
        /\ quoteResult = "null"

\* C15: with overlapping calls, loading is false as soon as one call has
\* completed, however many tasks are still pending.
FirstToFinishClearsLoading ==
    (\E j \in Runs : Done(j)) => loading = FALSE

\* One call completed, the task of another still pending, loading false.
IdleLookingWhilePending ==
    \E i, j \in Runs :
        /\ Done(j)
        /\ runs[i].pc = "pending"
        /\ loading = FALSE

\* C16: no state lies between a call's outcome write and its setLoading(false):
\* a call that has written an error text after its task settled, or invoked
\* onSuccess, has also written loading false, is complete and its promise has
\* settled, also while other calls are in flight.
TerminalUpdateIsOneStep ==
    \A i \in Runs :
        (Count(runs[i].log, "setError") > 1 \/ Count(runs[i].log, "onSuccess") > 0)
            => /\ Done(i)
               /\ runs[i].log[Len(runs[i].log)] = "setLoading(false)"
               /\ runs[i].promise = "fulfilled"

\* A call completed between the start and the continuation of another.
CompletedBesideSettledCall ==
    \E i, j \in Runs :
        /\ Done(j) /\ Count(runs[j].log, "onSuccess") = 1
        /\ runs[i].pc = "settled"
        /\ runs[i].log = <<"setLoading(true)", "setError", "task">>

----------------------------------------------------------------------------
\* C17: a call whose onSuccess throws ends like one whose task threw: the
\* error text is the thrown Error's message or the thrown value's string form,
\* written once after onSuccess, loading is false, and the promise of run is
\* fulfilled.
CallbackThrowIsReported ==
    \A i \in Runs :
        (Done(i) /\ runs[i].cb # "set" /\ Succeeded(i))
            => /\ error = "callback failed"
               /\ runs[i].log = <<"setLoading(true)", "setError", "task",
                                  "onSuccess", "setError", "setLoading(false)">>
               /\ loading = FALSE
               /\ runs[i].promise = "fulfilled"

\* A call whose onSuccess threw a string.
CallbackThrewStringReached ==
    \E i \in Runs :
        /\ Done(i) /\ runs[i].cb = "throwString" /\ Succeeded(i)
        /\ runs[i].arg = JObj(runs[i].kind, "p1")
        /\ error = "callback failed"
        /\ runs[i].promise = "fulfilled"

\* C18, as stated: in an idle state the error text is empty exactly when no
\* call has been made or the last completed call succeeded.
ErrorEmptyIffSuccess ==
    InFlight = {} =>
        /\ (\A i \in Runs : runs[i].pc = "idle") => error = ""
        /\ \A i \in Runs : Done(i) => (error = "" <=> Succeeded(i))

\* C18, amended: in an idle state the error text is empty if no call has been
\* made or the last completed call succeeded, and is the text of the failure
\* otherwise; so it is empty exactly when no call has been made, the last call
\* succeeded, or the failure's own text is empty (a single error record whose
\* message is "", an Error whose message is "").
ErrorIsLastFailureText ==
    InFlight = {} =>
        /\ (\A i \in Runs : runs[i].pc = "idle") => error = ""
        /\ \A i \in Runs :
              Done(i) =>
                  /\ error = (IF Succeeded(i) THEN "" ELSE FailureText(i))
                  /\ error = "" <=>
                        \/ Succeeded(i)
                        \/ TaskThrew(i) /\ runs[i].settled.thrown = ErrorValue("")
                        \/ /\ GotEnvelope(i)
                           /\ EnvelopeOf(i).errors.items = <<[message |-> ""]>>

\* An error whose only message is the empty string, after a stored customer.
EmptyMessageReached ==
    \E i \in Runs :
        /\ Done(i) /\ InFlight = {}
        /\ EnvelopeOf(i).errors.items = <<[message |-> ""]>>
        /\ Count(runs[i].log, "onSuccess") = 0
        /\ error = ""
        /\ customerResult = "p1"

\* C19: a call whose envelope has empty or absent `errors` and a `data` that
\* is null, false, 0 or "" ends as one whose envelope has no `data`: the error
\* text is the fixed sentence and onSuccess is not invoked.
FalsyDataIsMissingData ==
    \A i \in Runs :
        (/\ Done(i) /\ GotEnvelope(i) /\ ~HasErrors(EnvelopeOf(i))
         /\ EnvelopeOf(i).data \in FalsyJson)
            => /\ error = "No data returned by GraphQL API"
               /\ Count(runs[i].log, "onSuccess") = 0
               /\ runs[i].log = <<"setLoading(true)", "setError", "task",
                                  "setError", "setLoading(false)">>
               /\ Slots = runs[i].pre

\* The envelope {data: 0} received.
ZeroDataReached ==
    \E i \in Runs :
        /\ Done(i) /\ GotEnvelope(i)
        /\ EnvelopeOf(i) = [data |-> JZero, errors |-> EmptyErrors]
        /\ error = "No data returned by GraphQL API"

====
